---- MODULE Spec2Model ----
(***************************************************************************)
(* Model of climate_disasters_pipeline.py: the two loaders, the annual     *)
(* aggregation, the outer merge on year, the summary statistics and the    *)
(* disaster-type frequency table.                                          *)
(*                                                                         *)
(* A dataframe is a sequence of rows (records).  A cell is a record        *)
(* [k, a, b]: k = "na" is NaN/NaT/None, k = "num" is the float a/b (an     *)
(* exact rational, b > 0, lowest terms), k = "numstr" is a Python str that *)
(* spells the number a/b, k = "str" is any other Python str, k = "date" is *)
(* a str that spells the date a-(b \div 100)-(b % 100), k = "ts" is the    *)
(* Timestamp of that date, k = "sqrt" is the square root of a/b.           *)
(* Floating-point rounding is not modelled: floats are exact rationals.    *)
(***************************************************************************)
EXTENDS Integers, Sequences, FiniteSets

VARIABLES pc, exc,
          csv_gia, csv_berk, csv_josep, csv_bar, csv_shrey,
          temps_all, temps_annual, disasters_all, disasters_per_year,
          merged, summary_stats, type_counts

vars == <<pc, exc, csv_gia, csv_berk, csv_josep, csv_bar, csv_shrey,
          temps_all, temps_annual, disasters_all, disasters_per_year,
          merged, summary_stats, type_counts>>

files == <<csv_gia, csv_berk, csv_josep, csv_bar, csv_shrey>>

\* ------------------------------------------------------------------ bounds

\* Rows over the three temperature files together (temperature-side inputs).
MaxTempRows == 2
\* Rows over the two disaster files together (disaster-side inputs).
MaxDisRows == 3
\* Rows over all five files together (inputs with rows on both sides).
MaxRows == 3
\* Calendar years of the annual inputs, and the largest per-year event count.
NumYears == 3
MaxCount == 3

\* ------------------------------------------------------------------- cells

Cell(k, a, b) == [k |-> k, a |-> a, b |-> b]
NaN == Cell("na", 0, 1)
Junk == Cell("str", 0, 1)

RECURSIVE GCD(_, _)
GCD(x, y) == IF y = 0 THEN x ELSE GCD(y, x % y)

Abs(x) == IF x < 0 THEN -x ELSE x

\* The float n/d, d > 0.
Num(n, d) ==
    LET g == GCD(Abs(n), d) IN Cell("num", n \div g, d \div g)

IsNA(c) == c.k = "na"
IsStr(c) == c.k \in {"str", "numstr", "date"}

RatAdd(x, y) == Num(x.a * y.b + y.a * x.b, x.b * y.b)
RatDivInt(x, n) == Num(x.a, x.b * n)
RatLess(x, y) == x.a * y.b < y.a * x.b

\* ------------------------------------------------------- sequence helpers

RECURSIVE InsertByYear(_, _)
InsertByYear(r, sorted) ==
    IF sorted = <<>> THEN <<r>>
    ELSE IF r.year < Head(sorted).year THEN <<r>> \o sorted
    ELSE <<Head(sorted)>> \o InsertByYear(r, Tail(sorted))

\* DataFrame.sort_values("year"): ascending, rows of equal year keep their order.
RECURSIVE SortValuesYear(_)
SortValuesYear(rows) ==
    IF rows = <<>> THEN <<>>
    ELSE InsertByYear(rows[Len(rows)],
                      SortValuesYear(SubSeq(rows, 1, Len(rows) - 1)))

RECURSIVE SetToSortedSeq(_)
SetToSortedSeq(S) ==
    IF S = {} THEN <<>>
    ELSE LET m == CHOOSE x \in S : \A y \in S : x <= y
         IN <<m>> \o SetToSortedSeq(S \ {m})

RECURSIVE SumCells(_)
SumCells(cells) ==
    IF cells = <<>> THEN Num(0, 1)
    ELSE RatAdd(Head(cells), SumCells(Tail(cells)))

\* ------------------------------------------------------- pandas primitives

\* pd.read_csv's type of one column: a column with any non-numeric text is
\* an object column whose numbers stay strings; otherwise it is a float
\* column.  An empty cell is NaN either way.
IsObjectColumn(rows, c) ==
    \E i \in 1..Len(rows) : rows[i][c].k \in {"str", "date"}

ReadCsvCell(rows, c, cell) ==
    IF cell.k = "num" /\ IsObjectColumn(rows, c)
    THEN Cell("numstr", cell.a, cell.b)
    ELSE cell

read_csv(rows) ==
    [i \in 1..Len(rows) |->
        [c \in DOMAIN rows[i] |-> ReadCsvCell(rows, c, rows[i][c])]]

\* pd.to_datetime(column, errors="coerce") on one cell.
to_datetime(cell) ==
    IF cell.k = "date" THEN Cell("ts", cell.a, cell.b) ELSE Cell("na", 0, 1)

\* Series.dt.year on one cell: NaT gives NaN.
dt_year(cell) ==
    IF cell.k = "ts" THEN Num(cell.a, 1) ELSE NaN

\* pd.to_numeric(column, errors="coerce") on one cell.
to_numeric(cell) ==
    IF cell.k \in {"num", "numstr"} THEN Num(cell.a, cell.b) ELSE NaN

\* Variant of CelsiusToFahrenheit: the reading is taken as Fahrenheit.
CelsiusUnconverted(cell) == cell

\* column * 9 / 5 + 32 on one float cell.
CelsiusToFahrenheit(cell) ==
    IF IsNA(cell) THEN NaN ELSE Num(cell.a * 9 + 32 * 5 * cell.b, 5 * cell.b)

\* Series.astype(int) on one cell of a column without missing values:
\* int() of a float truncates, int() of a str needs an integer literal.
AstypeIntRaises(cell) ==
    cell.k \notin {"num", "numstr"} \/ (cell.k = "numstr" /\ cell.b # 1)

AstypeInt(cell) == cell.a \div cell.b

\* Variant of GroupKeys: one key per row, in row order.
GroupKeysPerRow(rows) == [i \in 1..Len(rows) |-> rows[i].year]

\* The keys of DataFrame.groupby("year"): distinct, ascending.
GroupKeys(rows) ==
    SetToSortedSeq({rows[i].year : i \in 1..Len(rows)})

\* --------------------------------------------------- load_temperature_data

GiaStd(rows) ==
    [i \in 1..Len(rows) |->
        [year |-> rows[i].Year,
         TempF |-> rows[i].Average_Fahrenheit_Temperature,
         source |-> "Gia_Bach_Nguyen"]]

BerkRaises(rows) ==
    \E i \in 1..Len(rows) : IsStr(rows[i].LandAndOceanAverageTemperature)

BerkStd(rows) ==
    [i \in 1..Len(rows) |->
        [year |-> dt_year(to_datetime(rows[i].dt)),
         TempF |-> CelsiusToFahrenheit(rows[i].LandAndOceanAverageTemperature),
         source |-> "Berkeley_Earth"]]

JosepStd(rows) ==
    [i \in 1..Len(rows) |->
        [year |-> dt_year(to_datetime(rows[i].EventDate)),
         TempF |-> to_numeric(rows[i].TemperatureFahrenheit),
         source |-> "Josep_Ferrer"]]

\* temps_all.dropna(subset=["year", "TempF"])
DropnaTemps(rows) ==
    SelectSeq(rows, LAMBDA r : ~IsNA(r.year) /\ ~IsNA(r.TempF))

\* The TempF column of the concatenation is an object column when Gia's is
\* (its non-missing values are then all strings), or when all three frames
\* are empty.
TempFIsObject(gia, berk, josep) ==
    \/ IsObjectColumn(gia, "Average_Fahrenheit_Temperature")
    \/ (gia = <<>> /\ berk = <<>> /\ josep = <<>>)

MeanTempF(rows, y) ==
    LET g == SelectSeq(rows, LAMBDA r : r.year = y)
    IN RatDivInt(SumCells([i \in 1..Len(g) |-> g[i].TempF]), Len(g))

\* temps_all.groupby("year", as_index=False)["TempF"].mean()
GroupByYearMean(rows) ==
    LET keys == GroupKeys(rows)
    IN [i \in 1..Len(keys) |->
           [year |-> keys[i], TempF |-> MeanTempF(rows, keys[i])]]

\* The outcome of load_temperature_data on the three files: the exception
\* raised ("none" when it returns) and the two tables returned.
\* objectMeanRaises: whether the group mean of an object column that holds
\* no string raises (it depends on the pandas version).
load_temperature_data(gia_csv, berk_csv, josep_csv, objectMeanRaises) ==
    LET temps_gia == GiaStd(read_csv(gia_csv))
        berk == read_csv(berk_csv)
        josep == read_csv(josep_csv)
        NoTables(e) == [exc |-> e, temps_all |-> <<>>, temps_annual |-> <<>>]
    IN IF BerkRaises(berk) THEN NoTables("TypeError")
       ELSE
       LET kept == DropnaTemps(temps_gia \o BerkStd(berk) \o JosepStd(josep))
       IN IF \E i \in 1..Len(kept) : AstypeIntRaises(kept[i].year)
          THEN NoTables("ValueError")
          ELSE
          LET all == [i \in 1..Len(kept) |->
                         [kept[i] EXCEPT !.year = AstypeInt(kept[i].year)]]
          IN IF \E i \in 1..Len(all) : IsStr(all[i].TempF)
             THEN NoTables("TypeError")
             ELSE IF TempFIsObject(gia_csv, berk_csv, josep_csv)
                     /\ objectMeanRaises
             THEN NoTables("DataError")
             ELSE [exc |-> "none",
                   temps_all |-> all,
                   temps_annual |-> SortValuesYear(GroupByYearMean(all))]

\* ------------------------------------------------------ load_disaster_data

NoType == "NaN"

BarStd(rows) ==
    [i \in 1..Len(rows) |->
        [event_date |-> to_datetime(rows[i].EventDate),
         year |-> dt_year(to_datetime(rows[i].EventDate)),
         disaster_type |-> rows[i].Var5,
         source |-> "Baris_Dincer"]]

ShreyStd(rows) ==
    [i \in 1..Len(rows) |->
        [event_date |-> to_datetime(rows[i].Date),
         year |-> dt_year(to_datetime(rows[i].Date)),
         disaster_type |-> rows[i].DisasterType,
         source |-> "Shreyansh_Dangi"]]

\* Variant of DropnaDisasters: only the year is required.
DropnaDisastersYearOnly(rows) == SelectSeq(rows, LAMBDA r : ~IsNA(r.year))

\* disasters_all.dropna(subset=["year", "disaster_type"])
DropnaDisasters(rows) ==
    SelectSeq(rows, LAMBDA r : ~IsNA(r.year) /\ r.disaster_type # NoType)

\* disasters_all.groupby("year", as_index=False).size()
\*     .rename(columns={"size": "disaster_count"})
GroupByYearSize(rows) ==
    LET keys == GroupKeys(rows)
    IN [i \in 1..Len(keys) |->
           [year |-> keys[i],
            disaster_count |->
                Num(Cardinality({j \in 1..Len(rows) : rows[j].year = keys[i]}), 1)]]

load_disaster_data(bar_csv, shrey_csv) ==
    LET kept == DropnaDisasters(BarStd(bar_csv) \o ShreyStd(shrey_csv))
        all == [i \in 1..Len(kept) |->
                   [kept[i] EXCEPT !.year = AstypeInt(kept[i].year)]]
    IN [disasters_all |-> all,
        disasters_per_year |-> SortValuesYear(GroupByYearSize(all))]

\* ---------------------------------------------------- build_merged_dataset

MergedRow(y, t, c) == [year |-> y, TempF |-> t, disaster_count |-> c]

\* Variant of JoinLeftRow: a year without events gets the count 0.
JoinLeftRowZeroFill(l, right) ==
    LET m == SelectSeq(right, LAMBDA r : r.year = l.year)
    IN IF m = <<>> THEN <<MergedRow(l.year, l.TempF, Cell("num", 0, 1))>>
       ELSE [j \in 1..Len(m) |-> MergedRow(l.year, l.TempF, m[j].disaster_count)]

\* The rows one left row gives: one per right row of the same year, or one
\* with a missing disaster_count when there is none.
JoinLeftRow(l, right) ==
    LET m == SelectSeq(right, LAMBDA r : r.year = l.year)
    IN IF m = <<>> THEN <<MergedRow(l.year, l.TempF, NaN)>>
       ELSE [j \in 1..Len(m) |-> MergedRow(l.year, l.TempF, m[j].disaster_count)]

RECURSIVE JoinLeftRows(_, _)
JoinLeftRows(left, right) ==
    IF left = <<>> THEN <<>>
    ELSE JoinLeftRow(Head(left), right) \o JoinLeftRows(Tail(left), right)

\* The right rows whose year no left row has, with a missing TempF.
RightOnlyRows(left, right) ==
    LET rest == SelectSeq(right,
                    LAMBDA r : \A i \in 1..Len(left) : left[i].year # r.year)
    IN [j \in 1..Len(rest) |-> MergedRow(rest[j].year, NaN, rest[j].disaster_count)]

\* Variant of MergeOuterOnYear: a left join, which loses the years only the
\* right table has.
MergeLeftOnYear(left, right) == JoinLeftRows(left, right)

\* pd.merge(left, right, on="year", how="outer")
MergeOuterOnYear(left, right) ==
    JoinLeftRows(left, right) \o RightOnlyRows(left, right)

Merge(annual, per_year) == SortValuesYear(MergeOuterOnYear(annual, per_year))

\* ------------------------------------------------ compute_disaster_summary

RatSub(x, y) == Num(x.a * y.b - y.a * x.b, x.b * y.b)
RatMul(x, y) == Num(x.a * y.a, x.b * y.b)

\* The non-missing values of a column (every reduction skips NaN).
SkipNA(column) == SelectSeq(column, LAMBDA c : ~IsNA(c))

RECURSIVE InsertCell(_, _)
InsertCell(c, sorted) ==
    IF sorted = <<>> THEN <<c>>
    ELSE IF RatLess(c, Head(sorted)) THEN <<c>> \o sorted
    ELSE <<Head(sorted)>> \o InsertCell(c, Tail(sorted))

RECURSIVE SortCells(_)
SortCells(cells) ==
    IF cells = <<>> THEN <<>> ELSE InsertCell(Head(cells), SortCells(Tail(cells)))

SeriesCount(column) == Num(Len(SkipNA(column)), 1)

\* Variant of SeriesSum: Series.sum(min_count=1), NaN for no values.
SeriesSumMinCount1(column) ==
    IF SkipNA(column) = <<>> THEN Cell("na", 0, 1) ELSE SumCells(SkipNA(column))

\* Series.sum(): the sum of no values is 0.
SeriesSum(column) == SumCells(SkipNA(column))

\* Variant of SeriesMean: the sum is divided by the number of rows, missing
\* ones included.
SeriesMeanOverAllRows(column) ==
    IF SkipNA(column) = <<>> THEN Cell("na", 0, 1)
    ELSE RatDivInt(SumCells(SkipNA(column)), Len(column))

SeriesMean(column) ==
    LET v == SkipNA(column)
    IN IF v = <<>> THEN NaN ELSE RatDivInt(SumCells(v), Len(v))

\* Series.std(): sample standard deviation (ddof = 1), NaN below two values.
SeriesStd(column) ==
    LET v == SkipNA(column)
        n == Len(v)
        s == SumCells(v)
        sq == SumCells([i \in 1..n |-> RatMul(v[i], v[i])])
        var == RatDivInt(RatSub(RatMul(Num(n, 1), sq), RatMul(s, s)), n * (n - 1))
    IN IF n < 2 THEN NaN ELSE Cell("sqrt", var.a, var.b)

SeriesMin(column) ==
    LET v == SortCells(SkipNA(column)) IN IF v = <<>> THEN NaN ELSE v[1]

SeriesMax(column) ==
    LET v == SortCells(SkipNA(column)) IN IF v = <<>> THEN NaN ELSE v[Len(v)]

SeriesMedian(column) ==
    LET v == SortCells(SkipNA(column))
        n == Len(v)
    IN IF n = 0 THEN NaN
       ELSE IF n % 2 = 1 THEN v[(n + 1) \div 2]
       ELSE RatDivInt(RatAdd(v[n \div 2], v[n \div 2 + 1]), 2)

compute_disaster_summary(m) ==
    LET dc == [i \in 1..Len(m) |-> m[i].disaster_count]
    IN [Count |-> SeriesCount(dc),
        Mean |-> SeriesMean(dc),
        StdDev |-> SeriesStd(dc),
        Min |-> SeriesMin(dc),
        Median |-> SeriesMedian(dc),
        Max |-> SeriesMax(dc),
        Sum |-> SeriesSum(dc)]

\* ---------------------------------------------------- disaster_type_counts

\* The distinct non-missing values of a column, in order of first appearance.
RECURSIVE Uniques(_)
Uniques(column) ==
    IF column = <<>> THEN <<>>
    ELSE LET rest == Uniques(SubSeq(column, 1, Len(column) - 1))
             x == column[Len(column)]
         IN IF x = NoType \/ \E i \in 1..Len(rest) : rest[i] = x
            THEN rest ELSE Append(rest, x)

RECURSIVE InsertByCountDesc(_, _)
InsertByCountDesc(r, sorted) ==
    IF sorted = <<>> THEN <<r>>
    ELSE IF r.count > Head(sorted).count THEN <<r>> \o sorted
    ELSE <<Head(sorted)>> \o InsertByCountDesc(r, Tail(sorted))

\* Variant of SortCountDesc: the entries stay in order of first appearance.
SortCountNone(rows) == rows

RECURSIVE SortCountDesc(_)
SortCountDesc(rows) ==
    IF rows = <<>> THEN <<>>
    ELSE InsertByCountDesc(rows[Len(rows)],
                           SortCountDesc(SubSeq(rows, 1, Len(rows) - 1)))

\* Series.value_counts(): one entry per distinct non-missing value, by
\* descending count.
value_counts(column) ==
    LET u == Uniques(column)
    IN SortCountDesc(
         [i \in 1..Len(u) |->
             [disaster_type |-> u[i],
              count |-> Cardinality({j \in 1..Len(column) : column[j] = u[i]})]])

disaster_type_counts(all) ==
    value_counts([i \in 1..Len(all) |-> all[i].disaster_type])

\* ------------------------------------------------------------- file inputs

DateText(y, md) == Cell("date", y, md)

GiaRows ==
    [Year : {Num(2020, 1), Num(2021, 1), Junk, NaN},
     Average_Fahrenheit_Temperature : {Num(50, 1), Num(68, 1), Junk, NaN}]

TempDates ==
    {DateText(2020, 301), DateText(2020, 701), DateText(2021, 301), Junk, NaN}

BerkRows ==
    [dt : TempDates,
     LandAndOceanAverageTemperature : {Num(10, 1), Num(20, 1), Junk, NaN}]

JosepRows ==
    [EventDate : TempDates,
     TemperatureFahrenheit : {Num(50, 1), Num(68, 1), Junk, NaN}]

DisasterDates == {DateText(2021, 301), DateText(2022, 715), Junk, NaN}

DisasterTypes == {"Flood", "Storm", NoType}

BarRows == [EventDate : DisasterDates, Var5 : DisasterTypes]

ShreyRows == [Date : DisasterDates, DisasterType : DisasterTypes]

\* A cell that is neither malformed nor missing.
WellFormed(cell) == cell.k \notin {"str", "na"}

GiaGoodRows ==
    {r \in GiaRows : WellFormed(r.Year)
                      /\ WellFormed(r.Average_Fahrenheit_Temperature)}

BerkGoodRows ==
    {r \in BerkRows : WellFormed(r.dt)
                       /\ WellFormed(r.LandAndOceanAverageTemperature)}

JosepGoodRows ==
    {r \in JosepRows : WellFormed(r.EventDate)
                        /\ WellFormed(r.TemperatureFahrenheit)}

BarGoodRows == {r \in BarRows : WellFormed(r.EventDate) /\ r.Var5 # NoType}

ShreyGoodRows ==
    {r \in ShreyRows : WellFormed(r.Date) /\ r.DisasterType # NoType}

Untouched ==
    /\ pc = "load_temperature"
    /\ exc = "none"
    /\ temps_all = <<>>
    /\ temps_annual = <<>>
    /\ disasters_all = <<>>
    /\ disasters_per_year = <<>>
    /\ merged = <<>>
    /\ summary_stats = <<>>
    /\ type_counts = <<>>

\* Any rows in the temperature files, at most MaxTempRows together; the
\* disaster files hold a header only.
InitTemp ==
    /\ \E n1, n2, n3 \in 0..MaxTempRows :
          /\ n1 + n2 + n3 <= MaxTempRows
          /\ csv_gia \in [1..n1 -> GiaRows]
          /\ csv_berk \in [1..n2 -> BerkRows]
          /\ csv_josep \in [1..n3 -> JosepRows]
    /\ csv_bar = <<>>
    /\ csv_shrey = <<>>
    /\ Untouched

\* Any rows in the disaster files, at most MaxDisRows together; the
\* temperature files hold a header only.
InitDis ==
    /\ csv_gia = <<>>
    /\ csv_berk = <<>>
    /\ csv_josep = <<>>
    /\ \E n4, n5 \in 0..MaxDisRows :
          /\ n4 + n5 <= MaxDisRows
          /\ csv_bar \in [1..n4 -> BarRows]
          /\ csv_shrey \in [1..n5 -> ShreyRows]
    /\ Untouched

\* Well-formed rows in all five files, at most MaxRows together.
InitBoth ==
    /\ \E n1, n2, n3, n4, n5 \in 0..MaxRows :
          /\ n1 + n2 + n3 + n4 + n5 <= MaxRows
          /\ csv_gia \in [1..n1 -> GiaGoodRows]
          /\ csv_berk \in [1..n2 -> BerkGoodRows]
          /\ csv_josep \in [1..n3 -> JosepGoodRows]
          /\ csv_bar \in [1..n4 -> BarGoodRows]
          /\ csv_shrey \in [1..n5 -> ShreyGoodRows]
    /\ Untouched

\* Annual inputs: the Gia file holds at most one row per year, in year order
\* (temp[y] = 0 for no row), and the Baris file holds count[y] events of
\* year y.
AnnualYears == 2020..(2019 + NumYears)

RECURSIVE GiaAnnualRows(_, _)
GiaAnnualRows(temp, y) ==
    IF y \notin AnnualYears THEN <<>>
    ELSE (IF temp[y] = 0 THEN <<>>
          ELSE <<[Year |-> Num(y, 1),
                  Average_Fahrenheit_Temperature |-> Num(temp[y], 1)]>>)
         \o GiaAnnualRows(temp, y + 1)

RECURSIVE BarEventRows(_, _, _)
BarEventRows(count, y, k) ==
    IF y \notin AnnualYears THEN <<>>
    ELSE IF k >= count[y] THEN BarEventRows(count, y + 1, 0)
    ELSE <<[EventDate |-> DateText(y, 301), Var5 |-> "Flood"]>>
         \o BarEventRows(count, y, k + 1)

InitAnnual ==
    /\ \E temp \in [AnnualYears -> {0, 50, 59}],
          count \in [AnnualYears -> 0..MaxCount] :
          /\ csv_gia = GiaAnnualRows(temp, 2020)
          /\ csv_bar = BarEventRows(count, 2020, 0)
    /\ csv_berk = <<>>
    /\ csv_josep = <<>>
    /\ csv_shrey = <<>>
    /\ Untouched

\* ----------------------------------------------------------------- actions

\* load_temperature_data(base_path)
LoadTemperature ==
    /\ pc = "load_temperature"
    /\ \E objectMeanRaises \in BOOLEAN :
          LET r == load_temperature_data(csv_gia, csv_berk, csv_josep,
                                         objectMeanRaises)
          IN /\ exc' = r.exc
             /\ temps_all' = r.temps_all
             /\ temps_annual' = r.temps_annual
             /\ pc' = IF r.exc = "none" THEN "load_disaster" ELSE "raised"
    /\ UNCHANGED <<files, disasters_all, disasters_per_year, merged,
                   summary_stats, type_counts>>

\* load_disaster_data(base_path)
LoadDisaster ==
    /\ pc = "load_disaster"
    /\ LET r == load_disaster_data(csv_bar, csv_shrey)
       IN /\ disasters_all' = r.disasters_all
          /\ disasters_per_year' = r.disasters_per_year
    /\ pc' = "merge"
    /\ UNCHANGED <<files, exc, temps_all, temps_annual, merged,
                   summary_stats, type_counts>>

\* The merge of build_merged_dataset.
BuildMerged ==
    /\ pc = "merge"
    /\ merged' = Merge(temps_annual, disasters_per_year)
    /\ pc' = "summary"
    /\ UNCHANGED <<files, exc, temps_all, temps_annual, disasters_all,
                   disasters_per_year, summary_stats, type_counts>>

\* compute_disaster_summary(merged)
ComputeSummary ==
    /\ pc = "summary"
    /\ summary_stats' = compute_disaster_summary(merged)
    /\ pc' = "type_counts"
    /\ UNCHANGED <<files, exc, temps_all, temps_annual, disasters_all,
                   disasters_per_year, merged, type_counts>>

\* disaster_type_counts(disasters_all)
TypeCounts ==
    /\ pc = "type_counts"
    /\ type_counts' = disaster_type_counts(disasters_all)
    /\ pc' = "done"
    /\ UNCHANGED <<files, exc, temps_all, temps_annual, disasters_all,
                   disasters_per_year, merged, summary_stats>>

Next ==
    \/ LoadTemperature
    \/ LoadDisaster
    \/ BuildMerged
    \/ ComputeSummary
    \/ TypeCounts

\* The pipeline on every input of the three families below.
Spec == (InitBoth \/ InitTemp \/ InitDis) /\ [][Next]_vars
\* The pipeline on temperature-side inputs.
SpecTemp == InitTemp /\ [][Next]_vars
\* The pipeline on disaster-side inputs.
SpecDis == InitDis /\ [][Next]_vars
\* The pipeline on annual inputs.
SpecAnnual == InitAnnual /\ [][Next]_vars

\* ------------------------------------------------------------------ claims

TempsLoaded == pc \in {"load_disaster", "merge", "summary", "type_counts", "done"}
DisastersLoaded == pc \in {"merge", "summary", "type_counts", "done"}
MergedBuilt == pc \in {"summary", "type_counts", "done"}
Summarized == pc \in {"type_counts", "done"}

YearsOf(rows) == {rows[i].year : i \in 1..Len(rows)}

StrictlyAscending(rows) ==
    \A i, j \in 1..Len(rows) : i < j => rows[i].year < rows[j].year

RECURSIVE SumInts(_)
SumInts(ns) == IF ns = <<>> THEN 0 ELSE Head(ns) + SumInts(Tail(ns))

\* C1: the merged table holds exactly one row for every year of either
\* annual aggregate and no other row, in ascending year order.
C1_MergedYearsExactlyOnce ==
    MergedBuilt =>
        /\ StrictlyAscending(merged)
        /\ YearsOf(merged) = YearsOf(temps_annual) \cup YearsOf(disasters_per_year)

\* A merge with a year on the temperature side only, a year on the
\* disaster side only and a year on both sides.
C1_Witness ==
    /\ MergedBuilt
    /\ Len(merged) = 3
    /\ YearsOf(temps_annual) \ YearsOf(disasters_per_year) # {}
    /\ YearsOf(disasters_per_year) \ YearsOf(temps_annual) # {}
    /\ YearsOf(temps_annual) \cap YearsOf(disasters_per_year) # {}

\* C2: in every merged row TempF is missing exactly when the year is absent
\* from temps_annual and otherwise is that aggregate's value, and
\* disaster_count is missing (not zero) exactly when the year is absent from
\* disasters_per_year and otherwise is that aggregate's count; the year is
\* never missing.
C2_MergedCellsFromAggregates ==
    MergedBuilt =>
        \A i \in 1..Len(merged) :
            LET m == merged[i]
                t == {j \in 1..Len(temps_annual) : temps_annual[j].year = m.year}
                d == {j \in 1..Len(disasters_per_year) :
                         disasters_per_year[j].year = m.year}
            IN /\ m.year \in Int
               /\ IF t = {} THEN m.TempF = NaN
                  ELSE m.TempF.k = "num"
                       /\ \A j \in t : m.TempF = temps_annual[j].TempF
               /\ IF d = {} THEN m.disaster_count = NaN
                  ELSE m.disaster_count.k = "num"
                       /\ \A j \in d :
                             m.disaster_count = disasters_per_year[j].disaster_count

\* Merging {2020: 59.0} with {2021: 3} gives (2020, 59.0, missing) and
\* (2021, missing, 3).
C2_Witness ==
    /\ MergedBuilt
    /\ temps_annual = <<[year |-> 2020, TempF |-> Num(59, 1)]>>
    /\ disasters_per_year = <<[year |-> 2021, disaster_count |-> Num(3, 1)]>>
    /\ merged = <<MergedRow(2020, Num(59, 1), NaN), MergedRow(2021, NaN, Num(3, 1))>>

\* The rows C3 speaks of: an unparseable date, a non-numeric or missing
\* temperature, a missing disaster category.
GiaKept(rows) ==
    SelectSeq(rows, LAMBDA r : r.Average_Fahrenheit_Temperature.k = "num")
BerkKept(rows) ==
    SelectSeq(rows, LAMBDA r : r.dt # Junk
                               /\ r.LandAndOceanAverageTemperature.k = "num")
JosepKept(rows) ==
    SelectSeq(rows, LAMBDA r : r.EventDate # Junk
                               /\ r.TemperatureFahrenheit.k = "num")
BarKept(rows) == SelectSeq(rows, LAMBDA r : r.EventDate # Junk /\ r.Var5 # NoType)
ShreyKept(rows) ==
    SelectSeq(rows, LAMBDA r : r.Date # Junk /\ r.DisasterType # NoType)

\* C3: rows with an unparseable date, a non-numeric or missing temperature
\* or a missing category contribute to no output: every table the pipeline
\* produces is the table it produces from the files without those rows.
\* (The version-dependent failure of the mean of an object column that
\* holds no string is left aside.)
C3_BadRowsContributeNothing ==
    LET t == load_temperature_data(GiaKept(csv_gia), BerkKept(csv_berk),
                                   JosepKept(csv_josep), FALSE)
        d == load_disaster_data(BarKept(csv_bar), ShreyKept(csv_shrey))
    IN /\ (pc # "load_temperature" /\ exc # "DataError") =>
              /\ exc = t.exc
              /\ temps_all = t.temps_all
              /\ temps_annual = t.temps_annual
       /\ DisastersLoaded =>
              /\ disasters_all = d.disasters_all
              /\ disasters_per_year = d.disasters_per_year
       /\ MergedBuilt => merged = Merge(t.temps_annual, d.disasters_per_year)
       /\ pc = "done" => type_counts = disaster_type_counts(d.disasters_all)

\* C4: the loaders never raise on a malformed field: no TypeError and no
\* ValueError comes out of a load.  (The version-dependent failure of the
\* mean of an object column that holds no string is left aside.)
C4_LoadersNeverRaise == exc \notin {"TypeError", "ValueError"}

\* The cleaned events of year y in the raw files: a parseable date of that
\* year and a category.
CleanEvents(y) ==
    Cardinality({i \in 1..Len(csv_bar) :
                    /\ csv_bar[i].EventDate.k = "date"
                    /\ csv_bar[i].EventDate.a = y
                    /\ csv_bar[i].Var5 # NoType})
    + Cardinality({i \in 1..Len(csv_shrey) :
                      /\ csv_shrey[i].Date.k = "date"
                      /\ csv_shrey[i].Date.a = y
                      /\ csv_shrey[i].DisasterType # NoType})

RawDisasterYears ==
    {csv_bar[i].EventDate.a : i \in 1..Len(csv_bar)}
    \cup {csv_shrey[i].Date.a : i \in 1..Len(csv_shrey)}

\* C5: disasters_per_year has a row (y, n) exactly when n >= 1 cleaned
\* events of both sources fall in year y, n being their number; a year
\* with no cleaned event has no row.
C5_DisastersPerYearCounts ==
    DisastersLoaded =>
        \A y \in RawDisasterYears \cup YearsOf(disasters_per_year) :
            LET rows == {i \in 1..Len(disasters_per_year) :
                            disasters_per_year[i].year = y}
            IN IF CleanEvents(y) = 0 THEN rows = {}
               ELSE /\ Cardinality(rows) = 1
                    /\ \A i \in rows :
                          disasters_per_year[i].disaster_count
                              = Cell("num", CleanEvents(y), 1)

\* Three events of 2021 and none of 2022: (2021, 3) and no 2022 row.
C5_Witness ==
    /\ DisastersLoaded
    /\ CleanEvents(2021) = 3
    /\ CleanEvents(2022) = 0
    /\ disasters_per_year = <<[year |-> 2021, disaster_count |-> Num(3, 1)]>>

\* C6: temps_annual and disasters_per_year each have pairwise distinct
\* years, in strictly ascending order.
C6_AggregatesStrictlyAscending ==
    /\ TempsLoaded => StrictlyAscending(temps_annual)
    /\ DisastersLoaded => StrictlyAscending(disasters_per_year)

\* Both aggregates computed, the temperature rows read in descending year
\* order.
C6_Witness ==
    /\ DisastersLoaded
    /\ Len(temps_all) = 2
    /\ temps_all[1].year > temps_all[2].year
    /\ Len(temps_annual) = 2
    /\ Len(disasters_all) >= 1
    /\ Len(disasters_per_year) = 1

PresentCounts ==
    LET idx == SetToSortedSeq({i \in 1..Len(merged) :
                                  merged[i].disaster_count.k = "num"})
    IN [j \in 1..Len(idx) |-> merged[idx[j]].disaster_count.a]

\* C7: Count is the number of rows with a disaster_count, Sum is the sum of
\* those counts, and Mean = Sum / Count whenever Count > 0.
C7_SummaryCountSumMean ==
    Summarized =>
        LET n == Len(PresentCounts)
            total == SumInts(PresentCounts)
        IN /\ summary_stats.Count = Cell("num", n, 1)
           /\ summary_stats.Sum = Cell("num", total, 1)
           /\ n > 0 => /\ summary_stats.Mean.k = "num"
                       /\ summary_stats.Mean.a * n = total * summary_stats.Mean.b

\* A summary over a table with a temperature-only year and two years of
\* different counts.
C7_Witness ==
    /\ Summarized
    /\ Len(PresentCounts) = 2
    /\ PresentCounts[1] # PresentCounts[2]
    /\ Len(merged) = 3

AllCountsMissing ==
    \A i \in 1..Len(merged) : merged[i].disaster_count = NaN

\* C8 as stated: with every disaster_count missing (or no rows), Count = 0
\* and Mean, StdDev, Min, Median, Max and Sum are all not-a-number.
C8_AllMissingGivesNaN ==
    (Summarized /\ AllCountsMissing) =>
        /\ summary_stats.Count = Num(0, 1)
        /\ \A f \in {"Mean", "StdDev", "Min", "Median", "Max", "Sum"} :
              summary_stats[f] = NaN

\* C8 amended: with every disaster_count missing (or no rows), Count = 0,
\* Sum = 0, and Mean, StdDev, Min, Median and Max are not-a-number.
C8_AllMissingGivesNaNButSumZero ==
    (Summarized /\ AllCountsMissing) =>
        /\ summary_stats.Count = Cell("num", 0, 1)
        /\ summary_stats.Sum = Cell("num", 0, 1)
        /\ \A f \in {"Mean", "StdDev", "Min", "Median", "Max"} :
              summary_stats[f] = NaN

\* A summary over a table of temperature-only years.
C8_Witness ==
    /\ Summarized
    /\ Len(merged) = 2
    /\ AllCountsMissing

EventsOfType(t) ==
    Cardinality({i \in 1..Len(disasters_all) : disasters_all[i].disaster_type = t})

\* C9: disaster_type_counts has one entry per distinct disaster_type, its
\* value the number of events of that type, in non-increasing order of
\* count; the counts sum to the number of cleaned events, which is the sum
\* of disaster_count over disasters_per_year.
C9_TypeCounts ==
    pc = "done" =>
        /\ \A t \in DisasterTypes :
              LET e == {i \in 1..Len(type_counts) :
                           type_counts[i].disaster_type = t}
              IN IF t = NoType \/ EventsOfType(t) = 0 THEN e = {}
                 ELSE /\ Cardinality(e) = 1
                      /\ \A i \in e : type_counts[i].count = EventsOfType(t)
        /\ \A i \in 1..Len(type_counts) :
              type_counts[i].disaster_type \in DisasterTypes
        /\ \A i, j \in 1..Len(type_counts) :
              i < j => type_counts[i].count >= type_counts[j].count
        /\ SumInts([i \in 1..Len(type_counts) |-> type_counts[i].count])
               = Len(disasters_all)
        /\ SumInts([i \in 1..Len(disasters_per_year) |->
                       disasters_per_year[i].disaster_count.a])
               = Len(disasters_all)

\* Storm, Flood, Flood gives Flood: 2 before Storm: 1.
C9_Witness ==
    /\ pc = "done"
    /\ [i \in 1..Len(disasters_all) |-> disasters_all[i].disaster_type]
           = <<"Storm", "Flood", "Flood">>
    /\ type_counts = <<[disaster_type |-> "Flood", count |-> 2],
                       [disaster_type |-> "Storm", count |-> 1]>>

\* Five times the Fahrenheit temperature of each cleaned raw row of year y:
\* rows of the Gia and Josep files are in Fahrenheit, rows of the Berkeley
\* file are in Celsius (5 F = 9 C + 160).
RawTempsTimes5(y) ==
    LET g == SelectSeq(csv_gia, LAMBDA r :
                 r.Year.k = "num" /\ r.Year.a = y
                 /\ r.Average_Fahrenheit_Temperature.k = "num")
        b == SelectSeq(csv_berk, LAMBDA r :
                 r.dt.k = "date" /\ r.dt.a = y
                 /\ r.LandAndOceanAverageTemperature.k = "num")
        j == SelectSeq(csv_josep, LAMBDA r :
                 r.EventDate.k = "date" /\ r.EventDate.a = y
                 /\ r.TemperatureFahrenheit.k = "num")
    IN [i \in 1..Len(g) |-> 5 * g[i].Average_Fahrenheit_Temperature.a]
       \o [i \in 1..Len(b) |-> 9 * b[i].LandAndOceanAverageTemperature.a + 160]
       \o [i \in 1..Len(j) |-> 5 * j[i].TemperatureFahrenheit.a]

====
